---------------------------- MODULE Spec2Model ----------------------------
(***************************************************************************)
(* A model of alertlib (src/alertlib/__init__.py): the Alert object, its   *)
(* per-backend rate limiter, the severity mapping, the five dispatchers    *)
(* (hipchat, email, pagerduty, logs, graphite), the email fallback chain,  *)
(* the process-wide graphite socket cache and the test-mode flag.          *)
(*                                                                         *)
(* Conventions.                                                            *)
(*  - Python text is a sequence of one-character strings.                  *)
(*  - Python None is None (-1) where the value is a number (a time, a      *)
(*    socket, a rate limit), NoneStr where it is a tag, and NoneText where *)
(*    it is text.                                                          *)
(*  - A dict is a function whose DOMAIN is the set of its keys.            *)
(*  - Every dispatcher is one action.  It leaves in `call` what the call   *)
(*    did: the external calls it made, in order (effects), the records it  *)
(*    wrote to the process log, in order (logs), whether the rate limiter  *)
(*    let it through (passed), the exception it raised to its caller       *)
(*    (raised) and the object it returned (returned).                      *)
(*  - The outcome of an external call (the chat API, the two mail paths,   *)
(*    name resolution, connect, send) is an input of the action.           *)
(***************************************************************************)
EXTENDS Integers, Sequences, FiniteSets, TLC

\* ------------------------------------------------------------------ bounds
\* The clock starts at 0 and advances at most MaxTicks times, by one second or
\* by GRAPHITE_MAX_AGE seconds.
MaxTicks == 2
\* Dispatches (and direct _mapped_severity calls) in one run.
MaxCalls == 2

\* --------------------------------------------------------------- constants
None == -1
NoneStr == "None"
NoneText == <<"None">>

DEBUG == 10
INFO == 20
WARNING == 30
ERROR == 40
CRITICAL == 50
\* A level of the caller's own, between INFO and WARNING (logging allows any).
NOTICE == INFO + 5
Levels == {DEBUG, INFO, WARNING, ERROR, CRITICAL}

\* last_sent.get(service_name, -1000000)
NEVER_SENT == -1000000
\* time.time() - _LAST_GRAPHITE_TIME > 600
GRAPHITE_MAX_AGE == 600
\* self.message[:9000]
HIPCHAT_MAX_LEN == 9000
\* self.message ... [:60]
SUMMARY_MAX_LEN == 60
\* time.sleep(1)
HIPCHAT_PAUSE == 1

Backends == {"hipchat", "email", "pagerduty", "logs", "graphite"}
Alerts == {1, 2}

\* ------------------------------------------------------------------- text
Min(a, b) == IF a < b THEN a ELSE b

\* text[:n]
Take(text, n) == SubSeq(text, 1, Min(Len(text), n))

\* text[n:] for n >= 0
Drop(text, n) == SubSeq(text, n + 1, Len(text))

\* c in text
Contains(text, c) == \E i \in 1..Len(text) : text[i] = c

\* text.find(c), for a c that occurs in text (0-based)
Find(text, c) == (CHOOSE i \in 1..Len(text) :
                    text[i] = c /\ \A j \in 1..(i-1) : text[j] # c) - 1

\* text.endswith(suffix)
EndsWith(text, suffix) ==
    /\ Len(text) >= Len(suffix)
    /\ SubSeq(text, Len(text) - Len(suffix) + 1, Len(text)) = suffix

KA_DOMAIN == <<"@","k","h","a","n","a","c","a","d","e","m","y",".","o","r","g">>
PAGERDUTY_DOMAIN == <<"@","k","h","a","n","-","a","c","a","d","e","m","y",".",
                      "p","a","g","e","r","d","u","t","y",".","c","o","m">>

UpperCase == <<"A","B","C","D","E","F","G","H","I","J","K","L","M",
               "N","O","P","Q","R","S","T","U","V","W","X","Y","Z">>
LowerCase == <<"a","b","c","d","e","f","g","h","i","j","k","l","m",
               "n","o","p","q","r","s","t","u","v","w","x","y","z">>
Digits == {"0","1","2","3","4","5","6","7","8","9"}

\* c.lower()
LowerChar(c) == IF \E i \in 1..26 : UpperCase[i] = c
                THEN LowerCase[CHOOSE i \in 1..26 : UpperCase[i] = c]
                ELSE c

\* re.compile(r'[^A-Za-z0-9._-]')
_PAGERDUTY_ILLEGAL_CHARS(c) ==
    ~ \/ \E i \in 1..26 : c = UpperCase[i] \/ c = LowerCase[i]
      \/ c \in Digits
      \/ c \in {".", "_", "-"}

\* _PAGERDUTY_ILLEGAL_CHARS.sub('', text).lower()
RECURSIVE StripLower(_)
StripLower(text) ==
    IF text = <<>> THEN <<>>
    ELSE IF _PAGERDUTY_ILLEGAL_CHARS(Head(text)) THEN StripLower(Tail(text))
    ELSE <<LowerChar(Head(text))>> \o StripLower(Tail(text))

\* c * n
Repeat(c, n) == [i \in 1..n |-> c]

\* where text holds '8)' (no two occurrences overlap)
Emoticons(text) ==
    {i \in 1..(Len(text) - 1) : text[i] = "8" /\ text[i + 1] = ")"}

\* text.replace(u'8)', u'8\u200b)'): a zero-width space goes between the two
\* characters of every occurrence.  Computed by position, not by recursion on
\* the text, so that it can be applied to a text of HIPCHAT_MAX_LEN characters.
_nix_bad_emoticons(text) ==
    LET found == Emoticons(text)
        spaces == {i + Cardinality({k \in found : k < i}) + 1 : i \in found}
        length == Len(text) + Cardinality(found)
    IN  SubSeq([j \in 1..length |->
                   IF j \in spaces THEN "\\u200b"
                   ELSE text[j - Cardinality({z \in spaces : z < j})]],
               1, length)

\* text.splitlines()[0], for a non-empty text
FirstLine(text) ==
    IF Contains(text, "\n") THEN Take(text, Find(text, "\n")) ELSE text

\* ------------------------------------------------------------------ state
VARIABLES
    now,                    \* time.time()
    _TEST_MODE,             \* the module's _TEST_MODE
    hipchat_token,          \* secrets.hipchat_alertlib_token, or NoneStr
    hostedgraphite_api_key, \* secrets.hostedgraphite_api_key, or NoneStr
    syslog_loaded,          \* whether `import syslog` succeeded
    alerts,                 \* the Alert objects
    _GRAPHITE_SOCKET,       \* the cached socket (an index of sockets), or None
    _LAST_GRAPHITE_TIME,    \* when it was connected, or None
    sockets,                \* every socket created so far, in order
    let_through,            \* history: when each backend of a rate-limited
                            \* Alert last passed its dispatcher's limiter
    ncalls,                 \* calls made so far
    call,                   \* what the last call did
    threads,                \* where each concurrent caller of send_to_graphite
                            \* is, and the socket _graphite_socket returned it
    caller_list             \* a list of service names that the caller of
                            \* send_to_pagerduty keeps and passes again

vars == <<now, _TEST_MODE, hipchat_token, hostedgraphite_api_key,
          syslog_loaded, alerts, _GRAPHITE_SOCKET, _LAST_GRAPHITE_TIME,
          sockets, let_through, ncalls, call, threads,
          caller_list>>

env == <<hipchat_token, hostedgraphite_api_key, syslog_loaded>>
graphite == <<_GRAPHITE_SOCKET, _LAST_GRAPHITE_TIME, sockets>>


\* ----------------------------------------------------------- Alert object
\* {}
EmptyDict == [k \in {} |-> 0]

\* Alert.__init__: the fields of a new Alert, last_sent = {}
Alert(message, summary, severity, html, rate_limit) ==
    [message |-> message, summary |-> summary, severity |-> severity,
     html |-> html, rate_limit |-> rate_limit, last_sent |-> EmptyDict]

\* d.get(k, default)
Get(d, k, default) == IF k \in DOMAIN d THEN d[k] ELSE default

\* d[k] = v
Put(d, k, v) == [x \in DOMAIN d \cup {k} |-> IF x = k THEN v ELSE d[x]]

\* _passed_rate_limit with `>=` for `>`: a dispatch exactly rate_limit seconds
\* after the last one passes.
PassedRateLimitAtEdge(self, service_name, t) ==
    IF self.rate_limit = None \/ self.rate_limit = 0
    THEN [passed |-> TRUE, last_sent |-> self.last_sent]
    ELSE IF t - Get(self.last_sent, service_name, NEVER_SENT) >= self.rate_limit
         THEN [passed |-> TRUE, last_sent |-> Put(self.last_sent, service_name, t)]
         ELSE [passed |-> FALSE, last_sent |-> self.last_sent]

\* _passed_rate_limit keeping one timestamp for all backends of the Alert.
PassedRateLimitShared(self, service_name, t) ==
    IF self.rate_limit = None \/ self.rate_limit = 0
    THEN [passed |-> TRUE, last_sent |-> self.last_sent]
    ELSE IF t - Get(self.last_sent, service_name, NEVER_SENT) > self.rate_limit
         THEN [passed |-> TRUE, last_sent |-> [b \in Backends |-> t]]
         ELSE [passed |-> FALSE, last_sent |-> self.last_sent]

\* _passed_rate_limit recording the time of every attempt, let through or not
PassedRateLimitStampingDenied(self, service_name, t) ==
    IF self.rate_limit = None \/ self.rate_limit = 0
    THEN [passed |-> TRUE, last_sent |-> self.last_sent]
    ELSE [passed |-> t - Get(self.last_sent, service_name, NEVER_SENT)
                        > self.rate_limit,
          last_sent |-> Put(self.last_sent, service_name, t)]

\* Alert._passed_rate_limit at time t: what it returns (passed) and what it
\* leaves in self.last_sent
_passed_rate_limit(self, service_name, t) ==
    IF self.rate_limit = None \/ self.rate_limit = 0
    THEN [passed |-> TRUE, last_sent |-> self.last_sent]
    ELSE IF t - Get(self.last_sent, service_name, NEVER_SENT) > self.rate_limit
         THEN [passed |-> TRUE, last_sent |-> Put(self.last_sent, service_name, t)]
         ELSE [passed |-> FALSE, last_sent |-> self.last_sent]

\* Alert._mapped_severity: severity_map.get(self.severity, severity_map[INFO]);
\* Python evaluates the default, severity_map[INFO], before the lookup
MappedSeverityLazy(self, severity_map) ==
    IF self.severity \in DOMAIN severity_map
    THEN [raised |-> "", value |-> severity_map[self.severity]]
    ELSE IF INFO \in DOMAIN severity_map
    THEN [raised |-> "", value |-> severity_map[INFO]]
    ELSE [raised |-> "KeyError", value |-> NoneStr]

_mapped_severity(self, severity_map) ==
    IF INFO \notin DOMAIN severity_map
    THEN [raised |-> "KeyError", value |-> NoneStr]
    ELSE [raised |-> "",
          value |-> Get(severity_map, self.severity, severity_map[INFO])]

\* Alert._get_summary: log_priority_to_prefix
log_priority_to_prefix ==
    (DEBUG :> <<"(","d","e","b","u","g"," ","i","n","f","o",")"," ">>)
    @@ (INFO :> <<>>)
    @@ (WARNING :> <<"W","A","R","N","I","N","G",":"," ">>)
    @@ (ERROR :> <<"E","R","R","O","R",":"," ">>)
    @@ (CRITICAL :> <<"*","*","C","R","I","T","I","C","A","L"," ",
                      "E","R","R","O","R","*","*",":"," ">>)

\* log_priority_to_prefix.get(self.severity, "")
SummaryPrefix(self) == Get(log_priority_to_prefix, self.severity, <<>>)

\* Alert._get_summary
_get_summary(self) ==
    IF self.summary # NoneText THEN self.summary
    ELSE IF self.message = <<>> THEN <<>>
    ELSE IF self.html THEN <<>>
    ELSE LET first == Take(FirstLine(self.message), SUMMARY_MAX_LEN)
             sentence == IF Contains(first, ".")
                         THEN Take(first, Find(first, "."))
                         ELSE first
         IN  SummaryPrefix(self) \o sentence

\* Alert._LOG_PRIORITY_TO_COLOR
_LOG_PRIORITY_TO_COLOR ==
    (DEBUG :> "gray") @@ (INFO :> "purple") @@ (WARNING :> "yellow")
    @@ (ERROR :> "red") @@ (CRITICAL :> "red")

\* Alert._LOG_TO_SYSLOG: {} when syslog could not be imported
_LOG_TO_SYSLOG ==
    IF syslog_loaded
    THEN (DEBUG :> "LOG_DEBUG") @@ (INFO :> "LOG_INFO")
         @@ (WARNING :> "LOG_WARNING") @@ (ERROR :> "LOG_ERR")
         @@ (CRITICAL :> "LOG_CRIT")
    ELSE EmptyDict

\* ---------------------------------------------------- what a call leaves
\* a record written with logging.<level>(...)
LogRecord(level, what) == [level |-> level, what |-> what]

NoCall == [op |-> "none", alert |-> 0, backend |-> "", at |-> 0, last |-> None,
           passed |-> FALSE, raised |-> "", returned |-> 0, test |-> FALSE,
           effects |-> <<>>, logs |-> <<>>, args |-> <<>>, result |-> <<>>]

\* `return self` of a dispatcher the limiter stopped
Limited(op, a, args) ==
    [NoCall EXCEPT !.op = op, !.alert = a, !.returned = a,
                   !.test = _TEST_MODE, !.args = args]

\* a dispatcher the limiter let through: it returns self unless it raised
LetThrough(op, a, args, result, raised, effects, logs) ==
    [NoCall EXCEPT !.op = op, !.alert = a, !.passed = TRUE, !.raised = raised,
                   !.returned = IF raised = "" THEN a ELSE 0,
                   !.test = _TEST_MODE, !.effects = effects, !.logs = logs,
                   !.args = args, !.result = result]

\* The state a dispatcher would leave if the limiter's write to self.last_sent
\* were kept only when the dispatch delivered: not when it raised, ran in
\* test mode or logged a warning or an error.
DispatchedOnDelivery(a, service_name, rl, record) ==
    /\ alerts' = [alerts EXCEPT ![a].last_sent =
                     IF /\ record.raised = ""
                        /\ ~record.test
                        /\ \A i \in 1..Len(record.logs) :
                              record.logs[i].level \notin {WARNING, ERROR}
                     THEN rl.last_sent
                     ELSE @]
    /\ let_through' =
         IF rl.passed /\ alerts[a].rate_limit \notin {None, 0}
         THEN [let_through EXCEPT ![a] = Put(@, service_name, now)]
         ELSE let_through
    /\ ncalls' = ncalls + 1
    /\ call' = [record EXCEPT !.backend = service_name, !.at = now,
                              !.last = Get(let_through[a], service_name, None)]
    /\ UNCHANGED threads

\* The state a dispatcher of Alert a leaves: the limiter's write to
\* self.last_sent, the call counted and recorded, with the time of the call
\* (at) and the time the same backend of the same Alert was last let through
\* before it (last).
Dispatched(a, service_name, rl, record) ==
    /\ alerts' = [alerts EXCEPT ![a].last_sent = rl.last_sent]
    /\ let_through' =
         IF rl.passed /\ alerts[a].rate_limit \notin {None, 0}
         THEN [let_through EXCEPT ![a] = Put(@, service_name, now)]
         ELSE let_through
    /\ ncalls' = ncalls + 1
    /\ call' = [record EXCEPT !.backend = service_name, !.at = now,
                              !.last = Get(let_through[a], service_name, None)]
    /\ UNCHANGED threads

\* --------------------------------------------------------------- the clock
\* the clock steps it takes to reach time t
Ticks(t) == (t \div GRAPHITE_MAX_AGE) + (t % GRAPHITE_MAX_AGE)

InClock(t) == Ticks(t) <= MaxTicks

\* time passes between two calls
Tick(d) ==
    /\ InClock(now + d)
    /\ now' = now + d
    /\ call' = NoCall
    /\ UNCHANGED <<_TEST_MODE, env, alerts, graphite, let_through, ncalls, threads, caller_list>>

\* enter_test_mode()
enter_test_mode ==
    /\ ~_TEST_MODE
    /\ _TEST_MODE' = TRUE
    /\ call' = NoCall
    /\ UNCHANGED <<now, env, alerts, graphite, let_through, ncalls, threads, caller_list>>

\* exit_test_mode()
exit_test_mode ==
    /\ _TEST_MODE
    /\ _TEST_MODE' = FALSE
    /\ call' = NoCall
    /\ UNCHANGED <<now, env, alerts, graphite, let_through, ncalls, threads, caller_list>>

\* ---------------------------------------------------------------- hipchat
\* _post_to_hipchat without its try: the API's error reaches the caller
PostToHipchatUncaught(post_dict, api) ==
    IF hipchat_token = NoneStr
    THEN [effects |-> <<>>, raised |-> "",
          logs |-> <<LogRecord(WARNING, "no hipchat token")>>]
    ELSE [effects |-> <<[kind |-> "hipchat_api", post |-> post_dict,
                         outcome |-> api]>>,
          raised |-> IF api = "ok" THEN "" ELSE "ValueError",
          logs |-> <<>>]

\* _post_to_hipchat without its token check: it posts whatever the token is
PostToHipchatWithoutToken(post_dict, api) ==
    [effects |-> <<[kind |-> "hipchat_api", post |-> post_dict,
                    outcome |-> api]>>,
     raised |-> "",
     logs |-> IF api = "ok" THEN <<>>
              ELSE <<LogRecord(ERROR, "failed sending to hipchat")>>]

\* Alert._post_to_hipchat: the API call it makes (none without a token), what
\* it logs and what it raises (nothing: the try catches every Exception);
\* api is what _make_hipchat_api_call does, "ok" or "error"
_post_to_hipchat(post_dict, api) ==
    IF hipchat_token = NoneStr
    THEN [effects |-> <<>>, raised |-> "",
          logs |-> <<LogRecord(WARNING, "no hipchat token")>>]
    ELSE [effects |-> <<[kind |-> "hipchat_api", post |-> post_dict,
                         outcome |-> api]>>,
          raised |-> "",
          logs |-> IF api = "ok" THEN <<>>
                   ELSE <<LogRecord(ERROR, "failed sending to hipchat")>>]

\* the summary part with the pause outside the test-mode branch
HipchatSummaryPausing(self, color, api) ==
    IF self.summary = NoneText \/ self.summary = <<>>
    THEN [effects |-> <<>>, logs |-> <<>>, raised |-> ""]
    ELSE IF _TEST_MODE
    THEN [effects |-> <<[kind |-> "sleep", secs |-> HIPCHAT_PAUSE]>>,
          raised |-> "",
          logs |-> <<LogRecord(INFO, "would send summary to hipchat")>>]
    ELSE LET post == _post_to_hipchat(
                        [part |-> "summary",
                         message |-> _nix_bad_emoticons(self.summary),
                         message_format |-> "text",
                         notify |-> 0, color |-> color], api)
         IN  [effects |-> post.effects
                          \o <<[kind |-> "sleep", secs |-> HIPCHAT_PAUSE]>>,
              logs |-> post.logs, raised |-> post.raised]

\* the summary part skipped altogether in test mode
HipchatSummarySkippedInTest(self, color, api) ==
    IF self.summary = NoneText \/ self.summary = <<>> \/ _TEST_MODE
    THEN [effects |-> <<>>, logs |-> <<>>, raised |-> ""]
    ELSE LET post == _post_to_hipchat(
                        [part |-> "summary",
                         message |-> _nix_bad_emoticons(self.summary),
                         message_format |-> "text",
                         notify |-> 0, color |-> color], api)
         IN  [effects |-> post.effects
                          \o <<[kind |-> "sleep", secs |-> HIPCHAT_PAUSE]>>,
              logs |-> post.logs, raised |-> post.raised]

\* the summary part posting the summary _get_summary derives when none was
\* given to the constructor
HipchatSummaryDerived(self, color, api) ==
    IF _get_summary(self) = <<>>
    THEN [effects |-> <<>>, logs |-> <<>>, raised |-> ""]
    ELSE IF _TEST_MODE
    THEN [effects |-> <<>>, raised |-> "",
          logs |-> <<LogRecord(INFO, "would send summary to hipchat")>>]
    ELSE LET post == _post_to_hipchat(
                        [part |-> "summary",
                         message |-> _nix_bad_emoticons(_get_summary(self)),
                         message_format |-> "text",
                         notify |-> 0, color |-> color], api)
         IN  [effects |-> post.effects
                          \o <<[kind |-> "sleep", secs |-> HIPCHAT_PAUSE]>>,
              logs |-> post.logs, raised |-> post.raised]

\* the summary part pausing before it posts the summary, not after
HipchatSummaryPausingFirst(self, color, api) ==
    IF self.summary = NoneText \/ self.summary = <<>>
    THEN [effects |-> <<>>, logs |-> <<>>, raised |-> ""]
    ELSE IF _TEST_MODE
    THEN [effects |-> <<>>, raised |-> "",
          logs |-> <<LogRecord(INFO, "would send summary to hipchat")>>]
    ELSE LET post == _post_to_hipchat(
                        [part |-> "summary",
                         message |-> _nix_bad_emoticons(self.summary),
                         message_format |-> "text",
                         notify |-> 0, color |-> color], api)
         IN  [effects |-> <<[kind |-> "sleep", secs |-> HIPCHAT_PAUSE]>>
                          \o post.effects,
              logs |-> post.logs, raised |-> post.raised]

\* the summary part of send_to_hipchat: if self.summary: ...
HipchatSummary(self, color, api) ==
    IF self.summary = NoneText \/ self.summary = <<>>
    THEN [effects |-> <<>>, logs |-> <<>>, raised |-> ""]
    ELSE IF _TEST_MODE
    THEN [effects |-> <<>>, raised |-> "",
          logs |-> <<LogRecord(INFO, "would send summary to hipchat")>>]
    ELSE LET post == _post_to_hipchat(
                        [part |-> "summary",
                         message |-> _nix_bad_emoticons(self.summary),
                         message_format |-> "text",
                         notify |-> 0, color |-> color], api)
         IN  IF post.raised # "" THEN post
             ELSE [effects |-> post.effects
                               \o <<[kind |-> "sleep", secs |-> HIPCHAT_PAUSE]>>,
                   logs |-> post.logs, raised |-> ""]

\* the message part posting self.message[:9000] as it is, html or not
HipchatMessageUnsanitized(self, color, notify, api) ==
    LET message == Take(self.message, HIPCHAT_MAX_LEN)
    IN  IF _TEST_MODE
        THEN [effects |-> <<>>, raised |-> "",
              logs |-> <<LogRecord(INFO, "would send message to hipchat")>>]
        ELSE _post_to_hipchat(
                 [part |-> "message", message |-> message,
                  message_format |-> IF self.html THEN "html" ELSE "text",
                  notify |-> IF notify THEN 1 ELSE 0, color |-> color], api)

\* the message part of send_to_hipchat
HipchatMessage(self, color, notify, api) ==
    LET message == Take(self.message, HIPCHAT_MAX_LEN)
    IN  IF _TEST_MODE
        THEN [effects |-> <<>>, raised |-> "",
              logs |-> <<LogRecord(INFO, "would send message to hipchat")>>]
        ELSE _post_to_hipchat(
                 [part |-> "message",
                  message |-> IF self.html THEN message
                              ELSE _nix_bad_emoticons(message),
                  message_format |-> IF self.html THEN "html" ELSE "text",
                  notify |-> IF notify THEN 1 ELSE 0, color |-> color], api)

\* Alert.send_to_hipchat(room_name, color, notify); api1 and api2 are what the
\* chat API does with the summary post and with the message post
send_to_hipchat(a, color, notify, api1, api2) ==
    LET self == alerts[a]
        rl == _passed_rate_limit(self, "hipchat", now)
        args == <<color, notify>>
        mapped == _mapped_severity(self, _LOG_PRIORITY_TO_COLOR)
        color1 == IF color = NoneStr THEN mapped.value ELSE color
        notify1 == IF notify = NoneStr THEN self.severity = CRITICAL
                   ELSE notify = "True"
        first == HipchatSummary(self, color1, api1)
        second == HipchatMessage(self, color1, notify1, api2)
        slept == \E i \in 1..Len(first.effects) : first.effects[i].kind = "sleep"
    IN  /\ ncalls < MaxCalls
        /\ IF ~rl.passed
           THEN /\ Dispatched(a, "hipchat", rl, Limited("send_to_hipchat", a, args))
                /\ now' = now
           ELSE IF color = NoneStr /\ mapped.raised # ""
           THEN /\ Dispatched(a, "hipchat", rl,
                      LetThrough("send_to_hipchat", a, args, <<>>,
                                 mapped.raised, <<>>, <<>>))
                /\ now' = now
           ELSE IF first.raised # ""
           THEN /\ Dispatched(a, "hipchat", rl,
                      LetThrough("send_to_hipchat", a, args, <<>>,
                                 first.raised, first.effects, first.logs))
                /\ now' = now
           ELSE /\ slept => InClock(now + HIPCHAT_PAUSE)
                /\ Dispatched(a, "hipchat", rl,
                      LetThrough("send_to_hipchat", a, args, <<>>,
                                 second.raised,
                                 first.effects \o second.effects,
                                 first.logs \o second.logs))
                /\ now' = IF slept THEN now + HIPCHAT_PAUSE ELSE now
        /\ UNCHANGED <<_TEST_MODE, env, graphite, caller_list>>

\* ------------------------------------------------------------------- logs
\* the syslog part of send_to_logs: try: ... except (NameError, KeyError): pass
SyslogWrite(self) ==
    LET mapped == _mapped_severity(self, _LOG_TO_SYSLOG)
    IN  IF mapped.raised # "" \/ ~syslog_loaded THEN <<>>
        ELSE <<[kind |-> "syslog", priority |-> mapped.value,
                message |-> self.message]>>

\* send_to_logs with the limiter in front of the syslog write only: the
\* process log is written on every call
SendToLogsLimitingSyslogOnly(a) ==
    LET self == alerts[a]
        rl == _passed_rate_limit(self, "logs", now)
        written == <<LogRecord(self.severity, self.message)>>
    IN  /\ ncalls < MaxCalls
        /\ IF ~rl.passed
           THEN Dispatched(a, "logs", rl,
                    [Limited("send_to_logs", a, <<>>) EXCEPT !.logs = written])
           ELSE Dispatched(a, "logs", rl,
                    LetThrough("send_to_logs", a, <<>>, <<>>, "",
                               IF _TEST_MODE THEN <<>> ELSE SyslogWrite(self),
                               written))
        /\ UNCHANGED <<now, _TEST_MODE, env, graphite, caller_list>>

\* Alert.send_to_logs()
send_to_logs(a) ==
    LET self == alerts[a]
        rl == _passed_rate_limit(self, "logs", now)
    IN  /\ ncalls < MaxCalls
        /\ IF ~rl.passed
           THEN Dispatched(a, "logs", rl, Limited("send_to_logs", a, <<>>))
           ELSE Dispatched(a, "logs", rl,
                    LetThrough("send_to_logs", a, <<>>, <<>>, "",
                               IF _TEST_MODE THEN <<>> ELSE SyslogWrite(self),
                               <<LogRecord(self.severity, self.message)>>))
        /\ UNCHANGED <<now, _TEST_MODE, env, graphite, caller_list>>

\* ------------------------------------------------------------------ email
\* An argument that is a string, a list of strings or None; items holds the
\* list, and for a string the list [lst] that the code wraps it in.
StrArg(text) == [type |-> "str", items |-> <<text>>]
ListArg(items) == [type |-> "list", items |-> items]
NoneArg == [type |-> "None", items |-> <<>>]

\* the loop of _normalize from index i on: the list as the loop leaves it, and
\* whether it raised ValueError
RECURSIVE NormalizeFrom(_, _)
NormalizeFrom(lst, i) ==
    IF i > Len(lst) THEN [raised |-> "", items |-> lst]
    ELSE IF EndsWith(lst[i], KA_DOMAIN) THEN NormalizeFrom(lst, i + 1)
    ELSE IF Contains(lst[i], "@") THEN [raised |-> "ValueError", items |-> lst]
    ELSE NormalizeFrom([lst EXCEPT ![i] = @ \o KA_DOMAIN], i + 1)

\* the loop of a _normalize that corrects an address instead of rejecting it
RECURSIVE AppendingFrom(_, _)
AppendingFrom(lst, i) ==
    IF i > Len(lst) THEN [raised |-> "", items |-> lst]
    ELSE IF Contains(lst[i], "@") THEN AppendingFrom(lst, i + 1)
    ELSE AppendingFrom([lst EXCEPT ![i] = @ \o KA_DOMAIN], i + 1)

NormalizeCorrecting(lst) ==
    IF lst.type = "None" THEN [raised |-> "", items |-> <<>>, isNone |-> TRUE]
    ELSE LET r == AppendingFrom(lst.items, 1)
         IN  [raised |-> r.raised, items |-> r.items, isNone |-> FALSE]

\* send_to_email._normalize
_normalize(lst) ==
    IF lst.type = "None" THEN [raised |-> "", items |-> <<>>, isNone |-> TRUE]
    ELSE LET r == NormalizeFrom(lst.items, 1)
         IN  [raised |-> r.raised, items |-> r.items, isNone |-> FALSE]

\* _send_to_email falling back to SMTP on any failure of the managed API
SendToEmailAlwaysFallingBack(email_addresses, cc, bcc, gae, smtp) ==
    LET viaGae == [kind |-> "gae_mail", to |-> email_addresses, cc |-> cc,
                   bcc |-> bcc, outcome |-> gae]
        viaSmtp == [kind |-> "smtp", to |-> email_addresses, cc |-> cc,
                    bcc |-> bcc, outcome |-> smtp]
    IN  IF gae = "sent"
        THEN [effects |-> <<viaGae>>, logs |-> <<>>, raised |-> ""]
        ELSE IF smtp = "sent"
        THEN [effects |-> <<viaGae, viaSmtp>>, logs |-> <<>>, raised |-> ""]
        ELSE IF smtp = "SMTPException"
        THEN [effects |-> <<viaGae, viaSmtp>>,
              logs |-> <<LogRecord(ERROR, "Failed sending email")>>,
              raised |-> ""]
        ELSE [effects |-> <<viaGae, viaSmtp>>, logs |-> <<>>, raised |-> smtp]

\* Alert._send_to_email: gae is what _send_to_gae_email does ("sent", or the
\* exception it raises), smtp what _send_to_sendmail does.  A NameError in
\* _send_to_sendmail means smtplib was never imported, and then evaluating
\* `except (NameError, smtplib.SMTPException)` raises NameError itself.
_send_to_email(email_addresses, cc, bcc, gae, smtp) ==
    LET viaGae == [kind |-> "gae_mail", to |-> email_addresses, cc |-> cc,
                   bcc |-> bcc, outcome |-> gae]
        viaSmtp == [kind |-> "smtp", to |-> email_addresses, cc |-> cc,
                    bcc |-> bcc, outcome |-> smtp]
    IN  IF gae = "sent"
        THEN [effects |-> <<viaGae>>, logs |-> <<>>, raised |-> ""]
        ELSE IF gae \notin {"NameError", "AssertionError"}
        THEN [effects |-> <<viaGae>>, logs |-> <<>>, raised |-> gae]
        ELSE IF smtp = "sent"
        THEN [effects |-> <<viaGae, viaSmtp>>, logs |-> <<>>, raised |-> ""]
        ELSE IF smtp = "SMTPException"
        THEN [effects |-> <<viaGae, viaSmtp>>,
              logs |-> <<LogRecord(ERROR, "Failed sending email")>>,
              raised |-> ""]
        ELSE [effects |-> <<viaGae, viaSmtp>>, logs |-> <<>>, raised |-> smtp]

\* the end of the two dispatchers without its try: what _send_to_email raises
\* reaches the caller
DeliverUncaught(what, email_addresses, cc, bcc, gae, smtp) ==
    IF _TEST_MODE
    THEN [effects |-> <<>>, raised |-> "",
          logs |-> <<LogRecord(INFO, <<"would send", what>>)>>]
    ELSE _send_to_email(email_addresses, cc, bcc, gae, smtp)

\* the end of send_to_email and of send_to_pagerduty: if _TEST_MODE: log it;
\* else: try: self._send_to_email(...) except Exception: log the failure.
\* It raises nothing.
Deliver(what, email_addresses, cc, bcc, gae, smtp) ==
    IF _TEST_MODE
    THEN [effects |-> <<>>, raised |-> "",
          logs |-> <<LogRecord(INFO, <<"would send", what>>)>>]
    ELSE LET sent == _send_to_email(email_addresses, cc, bcc, gae, smtp)
         IN  IF sent.raised = "" THEN sent
             ELSE [effects |-> sent.effects, raised |-> "",
                   logs |-> sent.logs
                            \o <<LogRecord(ERROR, <<"Failed sending", what>>)>>]

\* Alert.send_to_email(email_usernames, cc, bcc)
send_to_email(a, email_usernames, cc, bcc, gae, smtp) ==
    LET self == alerts[a]
        rl == _passed_rate_limit(self, "email", now)
        args == [to |-> email_usernames, cc |-> cc, bcc |-> bcc]
        n1 == _normalize(email_usernames)
        n2 == _normalize(cc)
        n3 == _normalize(bcc)
        raised == IF n1.raised # "" THEN n1.raised
                  ELSE IF n2.raised # "" THEN n2.raised ELSE n3.raised
        result == [to |-> n1, cc |-> n2, bcc |-> n3]
        out == Deliver("email", n1.items, n2.items, n3.items, gae, smtp)
    IN  /\ ncalls < MaxCalls
        /\ IF ~rl.passed
           THEN Dispatched(a, "email", rl, Limited("send_to_email", a, args))
           ELSE IF raised # ""
           THEN Dispatched(a, "email", rl,
                    LetThrough("send_to_email", a, args, <<>>, raised, <<>>, <<>>))
           ELSE Dispatched(a, "email", rl,
                    LetThrough("send_to_email", a, args, result, out.raised,
                               out.effects, out.logs))
        /\ UNCHANGED <<now, _TEST_MODE, env, graphite, caller_list>>

\* -------------------------------------------------------------- pagerduty
\* the loop of _service_name_to_email from index i on
RECURSIVE ServiceNamesFrom(_, _)
ServiceNamesFrom(lst, i) ==
    IF i > Len(lst) THEN [raised |-> "", items |-> lst]
    ELSE IF Contains(lst[i], "@") THEN [raised |-> "ValueError", items |-> lst]
    ELSE ServiceNamesFrom(
             [lst EXCEPT ![i] = StripLower(@) \o PAGERDUTY_DOMAIN], i + 1)

\* send_to_pagerduty._service_name_to_email: a string is wrapped in a new
\* list, a list is rewritten in place, item by item, up to the item that
\* raises
_service_name_to_email(lst) ==
    ServiceNamesFrom(lst.items, 1)

\* the argument that is the list object the caller keeps: its items are the
\* ones the object holds when the call is made
HeldList == [type |-> "held", items |-> <<>>]

\* the list of service names the caller builds once and keeps
CallerList == <<<<"o","p","s">>, <<"W","e","b"," ","1">>>>

\* pagerduty_servicenames as send_to_pagerduty receives it
Received(pagerduty_servicenames) ==
    IF pagerduty_servicenames.type = "held"
    THEN [type |-> "held", items |-> caller_list]
    ELSE pagerduty_servicenames

\* Alert.send_to_pagerduty(pagerduty_servicenames)
send_to_pagerduty(a, pagerduty_servicenames, gae, smtp) ==
    LET self == alerts[a]
        rl == _passed_rate_limit(self, "pagerduty", now)
        names == Received(pagerduty_servicenames)
        n == _service_name_to_email(names)
        out == Deliver("pagerduty email", n.items, <<>>, <<>>, gae, smtp)
    IN  /\ ncalls < MaxCalls
        /\ IF ~rl.passed
           THEN Dispatched(a, "pagerduty", rl,
                    Limited("send_to_pagerduty", a, names))
           ELSE IF n.raised # ""
           THEN Dispatched(a, "pagerduty", rl,
                    LetThrough("send_to_pagerduty", a, names,
                               <<>>, n.raised, <<>>, <<>>))
           ELSE Dispatched(a, "pagerduty", rl,
                    LetThrough("send_to_pagerduty", a, names,
                               n.items, out.raised, out.effects, out.logs))
        /\ caller_list' = IF rl.passed /\ names.type = "held"
                          THEN n.items
                          ELSE caller_list
        /\ UNCHANGED <<now, _TEST_MODE, env, graphite>>

\* --------------------------------------------------------------- graphite
\* Alert.DEFAULT_GRAPHITE_HOST
DEFAULT_GRAPHITE_HOST == "carbon.hostedgraphite.com:2003"

\* socket.socket(AF_INET, SOCK_STREAM): a new, unconnected socket
NewSocket == [peer |-> NoneStr, connected |-> FALSE, at |-> None,
              closed |-> FALSE]

\* a cached socket already replaced at exactly the maximum age
ExpiredAtEdge(t) == t - _LAST_GRAPHITE_TIME >= GRAPHITE_MAX_AGE

\* time.time() - _LAST_GRAPHITE_TIME > 600, at time t
Expired(t) == t - _LAST_GRAPHITE_TIME > GRAPHITE_MAX_AGE

\* _graphite_socket(graphite_hostport): the socket it returns (or the
\* exception it raises), the calls it makes and the globals it leaves.
\* resolve is what socket.gethostbyname does and connect what
\* _GRAPHITE_SOCKET.connect does: "ok" or "error".
_graphite_socket(graphite_hostport, resolve, connect) ==
    LET unchanged == [socket |-> _GRAPHITE_SOCKET, time |-> _LAST_GRAPHITE_TIME,
                      all |-> sockets]
        closing == _GRAPHITE_SOCKET # None
        closed == IF closing
                  THEN [sockets EXCEPT ![_GRAPHITE_SOCKET].closed = TRUE]
                  ELSE sockets
        closes == IF closing
                  THEN <<[kind |-> "close", socket |-> _GRAPHITE_SOCKET]>>
                  ELSE <<>>
        lookup == <<[kind |-> "gethostbyname", host |-> graphite_hostport,
                     outcome |-> resolve]>>
        new == Len(sockets) + 1
        connects == <<[kind |-> "socket", socket |-> new],
                      [kind |-> "connect", socket |-> new,
                       host |-> graphite_hostport, outcome |-> connect]>>
    IN  IF _GRAPHITE_SOCKET # None /\ _LAST_GRAPHITE_TIME = None
        THEN \* time.time() - None
             [raised |-> "TypeError", socket |-> None, effects |-> <<>>,
              globals |-> unchanged]
        ELSE IF _GRAPHITE_SOCKET # None /\ ~Expired(now)
        THEN [raised |-> "", socket |-> _GRAPHITE_SOCKET, effects |-> <<>>,
              globals |-> unchanged]
        ELSE IF resolve # "ok"
        THEN [raised |-> "socket.gaierror", socket |-> None,
              effects |-> closes \o lookup,
              globals |-> [unchanged EXCEPT !.all = closed]]
        ELSE IF connect # "ok"
        THEN [raised |-> "socket.error", socket |-> None,
              effects |-> closes \o lookup \o connects,
              globals |-> [socket |-> new, time |-> _LAST_GRAPHITE_TIME,
                           all |-> Append(closed, NewSocket)]]
        ELSE [raised |-> "", socket |-> new,
              effects |-> closes \o lookup \o connects,
              globals |-> [socket |-> new, time |-> now,
                           all |-> Append(closed,
                                      [NewSocket EXCEPT
                                          !.peer = graphite_hostport,
                                          !.connected = TRUE,
                                          !.at = now])]]

\* the body of send_to_graphite after the limiter: the calls it makes, what it
\* logs, the globals it leaves and what it raises (nothing: the try catches
\* every Exception); send is what socket.send does, "ok" or "error"
GraphiteSend(graphite_host, resolve, connect, send) ==
    LET unchanged == [socket |-> _GRAPHITE_SOCKET, time |-> _LAST_GRAPHITE_TIME,
                      all |-> sockets]
        got == _graphite_socket(graphite_host, resolve, connect)
    IN  IF _TEST_MODE
        THEN [effects |-> <<>>, globals |-> unchanged, raised |-> "",
              logs |-> <<LogRecord(INFO, "would send to graphite")>>]
        ELSE IF hostedgraphite_api_key = NoneStr
        THEN [effects |-> <<>>, globals |-> unchanged, raised |-> "",
              logs |-> <<LogRecord(WARNING, "no graphite API key")>>]
        ELSE IF got.raised # ""
        THEN [effects |-> got.effects, globals |-> got.globals, raised |-> "",
              logs |-> <<LogRecord(ERROR, "Failed sending to graphite")>>]
        ELSE [effects |-> got.effects
                          \o <<[kind |-> "send", socket |-> got.socket,
                                host |-> graphite_host, outcome |-> send]>>,
              globals |-> got.globals, raised |-> "",
              logs |-> IF send = "ok" THEN <<>>
                       ELSE <<LogRecord(ERROR, "Failed sending to graphite")>>]

\* Alert.send_to_graphite(statistic, value, graphite_host)
send_to_graphite(a, graphite_host, resolve, connect, send) ==
    LET self == alerts[a]
        rl == _passed_rate_limit(self, "graphite", now)
        out == GraphiteSend(graphite_host, resolve, connect, send)
    IN  /\ ncalls < MaxCalls
        /\ IF ~rl.passed
           THEN /\ Dispatched(a, "graphite", rl,
                      Limited("send_to_graphite", a, graphite_host))
                /\ UNCHANGED graphite
           ELSE /\ Dispatched(a, "graphite", rl,
                      LetThrough("send_to_graphite", a, graphite_host, <<>>,
                                 out.raised, out.effects, out.logs))
                /\ _GRAPHITE_SOCKET' = out.globals.socket
                /\ _LAST_GRAPHITE_TIME' = out.globals.time
                /\ sockets' = out.globals.all
        /\ UNCHANGED <<now, _TEST_MODE, env, caller_list>>

\* ------------------------------------------------- concurrent callers
\* Callers of send_to_graphite on threads of their own: each runs the lines of
\* _graphite_socket and the send one step at a time, and the steps of the
\* callers interleave.  Each is let through (no rate limit), outside test
\* mode and with an API key, and sends to DEFAULT_GRAPHITE_HOST.
Threads == {1, 2}

\* not in send_to_graphite
Idle == [pc |-> "idle", handle |-> None]

\* what a step of thread t leaves of the state it does not write
ThreadStep(t, pc, record) ==
    /\ threads' = [threads EXCEPT ![t].pc = pc]
    /\ call' = record
    /\ UNCHANGED <<now, _TEST_MODE, env, alerts, let_through, ncalls, caller_list>>

\* except Exception, why: logging.error(...); return self
ThreadFailed(t, raised, effects) ==
    [NoCall EXCEPT !.op = "send_to_graphite", !.alert = t, !.passed = TRUE,
                   !.returned = t, !.at = now, !.args = raised,
                   !.effects = effects,
                   !.logs = <<LogRecord(ERROR, "Failed sending to graphite")>>]

\* send_to_graphite up to its call of _graphite_socket
ThreadCall(t) ==
    /\ threads[t].pc = "idle"
    /\ ncalls < MaxCalls
    /\ ~_TEST_MODE
    /\ hostedgraphite_api_key # NoneStr
    /\ ncalls' = ncalls + 1
    /\ threads' = [threads EXCEPT ![t] = [pc |-> "check", handle |-> None]]
    /\ call' = NoCall
    /\ UNCHANGED <<now, _TEST_MODE, env, alerts, let_through, graphite, caller_list>>

\* if _GRAPHITE_SOCKET is None or time.time() - _LAST_GRAPHITE_TIME > 600:
ThreadCheck(t) ==
    /\ threads[t].pc = "check"
    /\ IF _GRAPHITE_SOCKET = None
       THEN ThreadStep(t, "resolve", NoCall)
       ELSE IF _LAST_GRAPHITE_TIME = None
       THEN ThreadStep(t, "idle", ThreadFailed(t, "TypeError", <<>>))
       ELSE IF Expired(now)
       THEN ThreadStep(t, "close", NoCall)
       ELSE ThreadStep(t, "return", NoCall)
    /\ UNCHANGED graphite

\* if _GRAPHITE_SOCKET: _GRAPHITE_SOCKET.close()
ThreadClose(t) ==
    /\ threads[t].pc = "close"
    /\ sockets' = IF _GRAPHITE_SOCKET # None
                  THEN [sockets EXCEPT ![_GRAPHITE_SOCKET].closed = TRUE]
                  ELSE sockets
    /\ ThreadStep(t, "resolve", NoCall)
    /\ UNCHANGED <<_GRAPHITE_SOCKET, _LAST_GRAPHITE_TIME>>

\* host_ip = socket.gethostbyname(hostname)
ThreadResolve(t, resolve) ==
    /\ threads[t].pc = "resolve"
    /\ IF resolve = "ok"
       THEN ThreadStep(t, "socket", NoCall)
       ELSE ThreadStep(t, "idle", ThreadFailed(t, "socket.gaierror",
                <<[kind |-> "gethostbyname", host |-> DEFAULT_GRAPHITE_HOST,
                   outcome |-> resolve]>>))
    /\ UNCHANGED graphite

\* _GRAPHITE_SOCKET = socket.socket(socket.AF_INET, socket.SOCK_STREAM)
ThreadSocket(t) ==
    /\ threads[t].pc = "socket"
    /\ sockets' = Append(sockets, NewSocket)
    /\ _GRAPHITE_SOCKET' = Len(sockets) + 1
    /\ ThreadStep(t, "connect", NoCall)
    /\ UNCHANGED _LAST_GRAPHITE_TIME

\* _GRAPHITE_SOCKET.connect((host_ip, port)), on whatever socket the global
\* names by now: a closed socket or one already connected refuses
ThreadConnect(t, connect) ==
    LET s == _GRAPHITE_SOCKET
        outcome == IF sockets[s].closed \/ sockets[s].connected THEN "error"
                   ELSE connect
        tried == <<[kind |-> "connect", socket |-> s,
                    host |-> DEFAULT_GRAPHITE_HOST, outcome |-> outcome]>>
    IN  /\ threads[t].pc = "connect"
        /\ IF outcome = "ok"
           THEN /\ sockets' = [sockets EXCEPT
                                  ![s].peer = DEFAULT_GRAPHITE_HOST,
                                  ![s].connected = TRUE, ![s].at = now]
                /\ ThreadStep(t, "stamp", NoCall)
           ELSE /\ sockets' = sockets
                /\ ThreadStep(t, "idle", ThreadFailed(t, "socket.error", tried))
        /\ UNCHANGED <<_GRAPHITE_SOCKET, _LAST_GRAPHITE_TIME>>

\* _LAST_GRAPHITE_TIME = time.time()
ThreadStamp(t) ==
    /\ threads[t].pc = "stamp"
    /\ _LAST_GRAPHITE_TIME' = now
    /\ ThreadStep(t, "return", NoCall)
    /\ UNCHANGED <<_GRAPHITE_SOCKET, sockets>>

\* return _GRAPHITE_SOCKET
ThreadReturn(t) ==
    /\ threads[t].pc = "return"
    /\ threads' = [threads EXCEPT ![t] = [pc |-> "send",
                                          handle |-> _GRAPHITE_SOCKET]]
    /\ call' = NoCall
    /\ UNCHANGED <<now, _TEST_MODE, env, alerts, let_through, ncalls, graphite, caller_list>>

\* _graphite_socket(graphite_host).send(...): a socket closed meanwhile, or
\* not connected, refuses; return self
ThreadSend(t, send) ==
    LET s == threads[t].handle
        outcome == IF sockets[s].closed \/ ~sockets[s].connected THEN "error"
                   ELSE send
        sent == <<[kind |-> "send", socket |-> s,
                   host |-> DEFAULT_GRAPHITE_HOST, outcome |-> outcome]>>
    IN  /\ threads[t].pc = "send"
        /\ threads' = [threads EXCEPT ![t] = Idle]
        /\ call' = IF outcome = "ok"
                   THEN [ThreadFailed(t, "", sent) EXCEPT !.logs = <<>>]
                   ELSE ThreadFailed(t, "socket.error", sent)
        /\ UNCHANGED <<now, _TEST_MODE, env, alerts, let_through, ncalls,
                       graphite, caller_list>>

\* ------------------------------------------------------- severity mapping
\* A direct call of Alert._mapped_severity(severity_map)
mapped_severity(a, severity_map) ==
    LET mapped == _mapped_severity(alerts[a], severity_map)
    IN  /\ ncalls < MaxCalls
        /\ ncalls' = ncalls + 1
        /\ call' = [NoCall EXCEPT !.op = "_mapped_severity", !.alert = a,
                                  !.raised = mapped.raised,
                                  !.test = _TEST_MODE,
                                  !.args = severity_map,
                                  !.result = mapped.value]
        /\ UNCHANGED <<now, _TEST_MODE, env, alerts, graphite, let_through, threads, caller_list>>

\* ------------------------------------------------------------ the inputs
Outcomes == {"ok", "error"}
GaeOutcomes == {"sent", "NameError", "AssertionError", "Error"}
SmtpOutcomes == {"sent", "NameError", "SMTPException", "Error"}

PlainMessage == <<"d","o","n","e">>
RateLimits == {None, 0, 1, 2}

\* The process as it starts: the secrets and syslog as the imports left them,
\* no socket cached, test mode off, and the Alerts as just constructed.
Start(tokens, keys, syslogs, constructed) ==
    /\ now = 0
    /\ _TEST_MODE = FALSE
    /\ hipchat_token \in tokens
    /\ hostedgraphite_api_key \in keys
    /\ syslog_loaded \in syslogs
    /\ alerts \in constructed
    /\ _GRAPHITE_SOCKET = None
    /\ _LAST_GRAPHITE_TIME = None
    /\ sockets = <<>>
    /\ let_through = [a \in Alerts |-> EmptyDict]
    /\ ncalls = 0
    /\ call = NoCall
    /\ threads = [t \in Threads |-> Idle]
    /\ caller_list = CallerList

Clock == \E d \in {1, GRAPHITE_MAX_AGE} : Tick(d)

\* what the two mail paths can do in one _send_to_email: the second is not
\* reached ("-") when the first delivers or raises something else than
\* NameError or AssertionError
MailOutcomes ==
    {<<"sent", "-">>, <<"Error", "-">>}
    \cup ({"NameError", "AssertionError"} \X SmtpOutcomes)

Foo == <<"f">>
Carol == <<"c">>
Bob == <<"b">>
AtKA(name) == name \o KA_DOMAIN
AtElsewhere(name) == name \o <<"@","x",".","o","r","g">>

\* (email_usernames, cc, bcc) of send_to_email
EmailArgs ==
    {<<to, NoneArg, NoneArg>> :
        to \in {ListArg(<<Foo>>), StrArg(Foo), ListArg(<<AtKA(Foo)>>),
                ListArg(<<AtElsewhere(Foo)>>), ListArg(<<Foo, AtElsewhere(Carol)>>)}}
    \cup {<<ListArg(<<Foo>>), cc, NoneArg>> :
            cc \in {ListArg(<<Carol>>), StrArg(AtElsewhere(Carol))}}
    \cup {<<ListArg(<<Foo>>), NoneArg, bcc>> :
            bcc \in {ListArg(<<Bob>>), ListArg(<<AtElsewhere(Bob)>>)}}
    \cup {<<ListArg(<<Foo>>), ListArg(<<AtKA(Carol)>>), StrArg(Bob)>>}

\* a bare username, and an address outside khanacademy.org
MailTo == {ListArg(<<Foo>>), ListArg(<<AtElsewhere(Foo)>>)}

\* one PagerDuty service, and an address given for a service name
OpsService == StrArg(<<"o","p","s">>)
ServiceNames == {OpsService, StrArg(<<"o","p","s","@","x">>)}

\* pagerduty_servicenames of send_to_pagerduty
PagerdutyArgs ==
    {HeldList,
     StrArg(<<"A","P","I","-","T","e","a","m","!","!">>),
     ListArg(<<<<"o","p","s">>, <<"W","e","b"," ","1">>>>),
     ListArg(<<<<"o","p","s">>, <<"o","p","s","@","x">>>>)}

\* (color, notify) of send_to_hipchat
HipchatArgs == {<<NoneStr, NoneStr>>, <<"green", "True">>}

\* ------------------------------------------------- Spec: the five backends
\* Two Alerts, one with a summary (and perhaps a rate limit) and one without,
\* dispatched to every backend in and out of test mode, with and without the
\* secrets, with every outcome of every transport.
Init ==
    Start({NoneStr, "token"}, {NoneStr, "key"}, {TRUE},
          {[a \in Alerts |->
              IF a = 1 THEN Alert(PlainMessage, <<"s">>, CRITICAL, FALSE, r)
              ELSE Alert(PlainMessage, NoneText, INFO, TRUE, None)] :
             r \in {None, 2}})

Next ==
    \/ enter_test_mode
    \/ exit_test_mode
    \/ \E a \in Alerts, args \in HipchatArgs, api1, api2 \in Outcomes :
          send_to_hipchat(a, args[1], args[2], api1, api2)
    \/ \E a \in Alerts, to \in MailTo,
          mail \in MailOutcomes :
          send_to_email(a, to, NoneArg, NoneArg, mail[1], mail[2])
    \/ \E a \in Alerts, names \in ServiceNames,
          mail \in MailOutcomes :
          send_to_pagerduty(a, names, mail[1], mail[2])
    \/ \E a \in Alerts : send_to_logs(a)
    \/ \E a \in Alerts, resolve, connect, send \in Outcomes :
          send_to_graphite(a, DEFAULT_GRAPHITE_HOST, resolve, connect, send)

Spec == Init /\ [][Next]_vars

\* ------------------------------------------------ SpecMail: the mail paths
\* One Alert, with or without a rate limit, sent by email and to PagerDuty, in
\* and out of test mode, to every kind of recipient and with every outcome of
\* the two mail paths.
InitMail ==
    Start({"token"}, {"key"}, {TRUE},
          {[a \in Alerts |-> Alert(PlainMessage, NoneText, ERROR, FALSE, r)] :
             r \in {None, 1}})

NextMail ==
    \/ enter_test_mode
    \/ exit_test_mode
    \/ \E args \in EmailArgs, mail \in MailOutcomes :
          send_to_email(1, args[1], args[2], args[3], mail[1], mail[2])
    \/ \E names \in PagerdutyArgs, mail \in MailOutcomes :
          send_to_pagerduty(1, names, mail[1], mail[2])

SpecMail == InitMail /\ [][NextMail]_vars

\* --------------------------------------------- SpecRate: the rate limiter
\* Two rate-limited Alerts dispatched to every backend while time passes;
\* a dispatch is let through or not, with or without the chat token, with a
\* valid or an invalid recipient, and its transport works or fails.
InitRate ==
    Start({NoneStr, "token"}, {"key"}, {TRUE},
          {[a \in Alerts |->
              Alert(PlainMessage, IF a = 1 THEN <<"s">> ELSE NoneText, INFO,
                    FALSE, IF a = 1 THEN r ELSE 1)] : r \in RateLimits})

NextRate ==
    \/ Clock
    \/ \E a \in Alerts, api \in Outcomes :
          send_to_hipchat(a, NoneStr, NoneStr, api, api)
    \/ \E a \in Alerts, to \in MailTo :
          send_to_email(a, to, NoneArg, NoneArg, "sent", "-")
    \/ \E a \in Alerts, names \in ServiceNames :
          send_to_pagerduty(a, names, "sent", "-")
    \/ \E a \in Alerts : send_to_logs(a)
    \/ \E a \in Alerts :
          send_to_graphite(a, DEFAULT_GRAPHITE_HOST, "ok", "ok", "ok")

SpecRate == InitRate /\ [][NextRate]_vars

\* ------------------------------------ SpecGraphite: the cached connection
\* a second endpoint a caller passes as graphite_host
LOCAL_GRAPHITE_HOST == "localhost:2003"

\* Two Alerts without a rate limit sending statistics to two endpoints, in
\* and out of test mode, while time passes and the lookup, the connection
\* and the send work or fail.
InitGraphite ==
    Start({"token"}, {NoneStr, "key"}, {TRUE},
          {[a \in Alerts |-> Alert(PlainMessage, NoneText, INFO, FALSE, None)]})

NextGraphite ==
    \/ Clock
    \/ enter_test_mode
    \/ exit_test_mode
    \/ \E a \in Alerts, host \in {DEFAULT_GRAPHITE_HOST, LOCAL_GRAPHITE_HOST},
          resolve, connect, send \in Outcomes :
          send_to_graphite(a, host, resolve, connect, send)

SpecGraphite == InitGraphite /\ [][NextGraphite]_vars

\* ------------------------------------- SpecSeverity: the severity tables
\* a table of the five levels, and what a caller keeps of it
FullTable ==
    (DEBUG :> "debug") @@ (INFO :> "info") @@ (WARNING :> "warning")
    @@ (ERROR :> "error") @@ (CRITICAL :> "critical")

SeverityTables ==
    {[l \in D |-> FullTable[l]] :
        D \in {{}, {INFO}, {ERROR}, {INFO, ERROR}, {DEBUG, WARNING}, Levels}}

\* An Alert of any severity, a level of the caller's own included, mapped
\* through partial tables and sent to the chat and to the logs, with and
\* without syslog.
InitSeverity ==
    Start({"token"}, {"key"}, {TRUE, FALSE},
          {[a \in Alerts |->
              IF a = 1 THEN Alert(PlainMessage, NoneText, l, FALSE, None)
              ELSE Alert(PlainMessage, <<"s">>, ERROR, FALSE, None)] :
             l \in Levels \cup {NOTICE}})

NextSeverity ==
    \/ \E a \in Alerts, severity_map \in SeverityTables :
          mapped_severity(a, severity_map)
    \/ \E a \in Alerts, api \in Outcomes :
          send_to_hipchat(a, NoneStr, NoneStr, api, api)
    \/ \E a \in Alerts : send_to_logs(a)
    \/ enter_test_mode
    \/ exit_test_mode

SpecSeverity == InitSeverity /\ [][NextSeverity]_vars

\* ------------------------------------------------- SpecChat: the chat posts
\* every text of at most three characters among '8', ')' and a letter
ShortTexts == UNION {[1..n -> {"8", ")", "a"}] : n \in 0..3}

\* messages with one '8)' at the end, just inside, across and just outside
\* the first HIPCHAT_MAX_LEN characters
LongMessages ==
    {Repeat("a", HIPCHAT_MAX_LEN - k) \o <<"8", ")">> : k \in {2, 1, 0}}

\* no summary, an empty one, and two summaries given to the constructor
ChatSummaries == {NoneText, <<>>, <<"s">>, <<"8", ")">>}

\* An Alert of any short or long message, with or without a summary, html or
\* not, and an html Alert with '8)' in its summary and its message, sent to
\* the chat in and out of test mode, with and without the token, while the
\* chat API works or fails.
InitChat ==
    Start({NoneStr, "token"}, {"key"}, {TRUE},
          {[a \in Alerts |->
              IF a = 1 THEN Alert(m, s, INFO, h, None)
              ELSE Alert(<<"(","1","2","8",")">>, <<"8",")","8",")">>,
                         WARNING, TRUE, None)] :
             m \in ShortTexts \cup LongMessages, s \in ChatSummaries,
             h \in BOOLEAN})

NextChat ==
    \/ enter_test_mode
    \/ exit_test_mode
    \/ \E a \in Alerts, api1, api2 \in Outcomes :
          send_to_hipchat(a, NoneStr, NoneStr, api1, api2)

SpecChat == InitChat /\ [][NextChat]_vars

\* --------------------------------------- SpecThreads: concurrent callers
\* Two threads sending statistics while time passes and the lookup, the
\* connection and the send work or fail.
InitThreads ==
    Start({"token"}, {"key"}, {TRUE},
          {[a \in Alerts |-> Alert(PlainMessage, NoneText, INFO, FALSE, None)]})

NextThreads ==
    \/ Clock
    \/ \E t \in Threads : ThreadCall(t)
    \/ \E t \in Threads : ThreadCheck(t)
    \/ \E t \in Threads : ThreadClose(t)
    \/ \E t \in Threads, resolve \in Outcomes : ThreadResolve(t, resolve)
    \/ \E t \in Threads : ThreadSocket(t)
    \/ \E t \in Threads, connect \in Outcomes : ThreadConnect(t, connect)
    \/ \E t \in Threads : ThreadStamp(t)
    \/ \E t \in Threads : ThreadReturn(t)
    \/ \E t \in Threads, send \in Outcomes : ThreadSend(t, send)

SpecThreads == InitThreads /\ [][NextThreads]_vars

\* ================================================================ claims
DispatchOps == {"send_to_hipchat", "send_to_email", "send_to_pagerduty",
                "send_to_logs", "send_to_graphite"}

\* the last call was a dispatch from an Alert whose rate_limit is set
RateLimitedDispatch ==
    call.op \in DispatchOps /\ alerts[call.alert].rate_limit \notin {None, 0}

\* C1: with rate_limit = R set, a dispatch is let through if and only if the
\* same backend of the same Alert was never let through before or was last let
\* through more than R seconds earlier; a dispatch that is not let through
\* makes no external call and writes no log record.
C1_LetThroughIffWindowElapsed ==
    RateLimitedDispatch =>
        /\ call.passed <=>
              \/ call.last = None
              \/ call.at - call.last > alerts[call.alert].rate_limit
        /\ ~call.passed => call.effects = <<>> /\ call.logs = <<>>

\* a dispatch exactly R seconds after the last let-through one is stopped
C1_StoppedAtWindowEdge ==
    /\ RateLimitedDispatch
    /\ call.last # None
    /\ call.at - call.last = alerts[call.alert].rate_limit
    /\ ~call.passed

\* C2: a dispatch, whatever becomes of it, leaves the last_sent entry of every
\* other backend and of every other Alert as it was, and so leaves the
\* limiter's answer for them, at any later time, as it was.
C2_OtherEntriesUntouched ==
    [][/\ \A a \in Alerts : a # call'.alert => alerts'[a] = alerts[a]
       /\ call'.alert \in Alerts =>
             \A b \in Backends \ {call'.backend} :
                LET before == alerts[call'.alert]
                    after == alerts'[call'.alert]
                IN  /\ (b \in DOMAIN after.last_sent)
                          <=> (b \in DOMAIN before.last_sent)
                    /\ b \in DOMAIN before.last_sent =>
                          after.last_sent[b] = before.last_sent[b]
                    /\ \A d \in {0, 1, 2} :
                          _passed_rate_limit(after, b, now' + d).passed
                             = _passed_rate_limit(before, b, now' + d).passed]_vars

\* a dispatch that raised, after its limiter let it through, beside an entry
\* of another backend or another Alert
C2_RaisedBesideOtherEntry ==
    /\ RateLimitedDispatch
    /\ call.raised # ""
    /\ call.backend \in DOMAIN alerts[call.alert].last_sent
    /\ \E a \in Alerts, b \in Backends :
          /\ a # call.alert \/ b # call.backend
          /\ b \in DOMAIN alerts[a].last_sent

\* ------------------------------------------------- transports and test mode
\* a call a transport answered with a failure
FailedEffect(e) ==
    /\ e.kind \in {"hipchat_api", "gae_mail", "smtp", "gethostbyname",
                   "connect", "send"}
    /\ e.outcome \notin {"ok", "sent"}

MailEffects(effects) ==
    {i \in 1..Len(effects) : effects[i].kind \in {"gae_mail", "smtp"}}

\* the last dispatch met a transport failure: the chat API failed a post, no
\* mail path delivered, or the metrics lookup, connection or send failed
TransportFailed ==
    /\ call.op \in DispatchOps
    /\ \/ \E i \in 1..Len(call.effects) :
             /\ call.effects[i].kind \in {"hipchat_api", "gethostbyname",
                                          "connect", "send"}
             /\ FailedEffect(call.effects[i])
       \/ /\ MailEffects(call.effects) # {}
          /\ \A i \in MailEffects(call.effects) : FailedEffect(call.effects[i])

\* C3: A dispatch whose transport fails (the chat API, both of the mail paths
\* it tried, the metrics lookup, connection or send) raises nothing: it writes
\* an error record and returns its Alert, so the chain goes on; and a failed
\* summary post does not keep the chat dispatcher from posting the message.
C3_TransportFailureIsLoggedNotRaised ==
    /\ TransportFailed =>
          /\ call.raised = ""
          /\ call.returned = call.alert
          /\ \E i \in 1..Len(call.logs) : call.logs[i].level = ERROR
    /\ (call.op = "send_to_hipchat" /\ call.passed /\ ~call.test
                /\ hipchat_token # NoneStr) =>
          \E i \in 1..Len(call.effects) :
             /\ call.effects[i].kind = "hipchat_api"
             /\ call.effects[i].post.part = "message"

\* an email dispatch whose managed API is missing and whose SMTP connection
\* failed with an error that is not an SMTPException
C3_BothMailPathsFailed ==
    /\ call.op = "send_to_email"
    /\ Len(call.effects) = 2
    /\ call.effects[1].outcome = "NameError"
    /\ call.effects[2].kind = "smtp"
    /\ call.effects[2].outcome = "Error"
    /\ call.returned = call.alert

\* C4: In test mode no dispatcher makes a call to the outside: no chat post, no
\* pause, no mail on either path, no syslog write, no socket opened, connected,
\* closed or written, and the socket cache and the clock stay as they were.
C4_TestModeMakesNoOutsideCall ==
    [][(call'.op \in DispatchOps /\ call'.test) =>
          /\ call'.effects = <<>>
          /\ UNCHANGED <<graphite, now>>]_vars

\* a chat dispatch of an Alert with a summary, made in test mode
C4_ChatWithSummaryInTestMode ==
    /\ call.op = "send_to_hipchat"
    /\ call.test
    /\ call.passed
    /\ alerts[call.alert].summary \notin {NoneText, <<>>}

\* the Alert of the last call was constructed with a non-empty summary
ExplicitSummary == alerts[call.alert].summary \notin {NoneText, <<>>}

\* C5 (as stated): in test mode every let-through dispatch writes exactly one
\* log record, the chat dispatcher's included.
C5_OneRecordPerDispatch ==
    (call.op \in DispatchOps /\ call.test /\ call.passed) =>
        Len(call.logs) = 1

\* C5 (amended): in test mode a let-through dispatch that is not rejected for
\* its recipients writes exactly one log record, except a chat dispatch of an
\* Alert constructed with a non-empty summary, which writes two (the summary,
\* then the message); a dispatch rejected for its recipients writes none.
C5_OneRecordButTwoForChatSummary ==
    (call.op \in DispatchOps /\ call.test /\ call.passed) =>
        /\ call.raised # "" => call.logs = <<>>
        /\ (call.raised = "" /\ call.op = "send_to_hipchat" /\ ExplicitSummary) =>
              call.logs = <<LogRecord(INFO, "would send summary to hipchat"),
                            LogRecord(INFO, "would send message to hipchat")>>
        /\ (call.raised = ""
               /\ ~(call.op = "send_to_hipchat" /\ ExplicitSummary)) =>
              /\ Len(call.logs) = 1
              /\ call.logs[1].level \in {INFO, alerts[call.alert].severity}

\* a test-mode chat dispatch that wrote two records
C5_TwoRecordsInTestMode ==
    /\ call.op = "send_to_hipchat"
    /\ call.test
    /\ Len(call.logs) = 2

\* C10: Outside test mode a let-through chat dispatch without a token makes no
\* chat API call, and a let-through metrics dispatch without an API key makes
\* no call at all and leaves the socket cache alone; each writes a warning
\* and returns its Alert.
C10_NoSecretNoCall ==
    [][/\ (call'.op = "send_to_hipchat" /\ call'.passed /\ ~call'.test
              /\ hipchat_token = NoneStr) =>
            /\ \A i \in 1..Len(call'.effects) :
                  call'.effects[i].kind # "hipchat_api"
            /\ \E i \in 1..Len(call'.logs) : call'.logs[i].level = WARNING
            /\ call'.raised = ""
            /\ call'.returned = call'.alert
       /\ (call'.op = "send_to_graphite" /\ call'.passed /\ ~call'.test
              /\ hostedgraphite_api_key = NoneStr) =>
            /\ call'.effects = <<>>
            /\ UNCHANGED graphite
            /\ \E i \in 1..Len(call'.logs) : call'.logs[i].level = WARNING
            /\ call'.raised = ""
            /\ call'.returned = call'.alert]_vars

\* a chat dispatch without a token, outside test mode, that paused after its
\* summary and posted nothing
C10_ChatWithoutToken ==
    /\ call.op = "send_to_hipchat"
    /\ call.passed
    /\ ~call.test
    /\ hipchat_token = NoneStr
    /\ Len(call.logs) = 2

\* ------------------------------------------------------------------- mail
\* the recipients an email call was given, in usernames, cc and bcc
Recipients(args) ==
    {args.to.items[i] : i \in 1..Len(args.to.items)}
        \cup {args.cc.items[i] : i \in 1..Len(args.cc.items)}
        \cup {args.bcc.items[i] : i \in 1..Len(args.bcc.items)}

\* the addresses a list of usernames stands for
Addresses(arg) ==
    [i \in 1..Len(arg.items) |->
        IF EndsWith(arg.items[i], KA_DOMAIN) THEN arg.items[i]
        ELSE arg.items[i] \o KA_DOMAIN]

\* C6 (as stated): send_to_email raises a validation error, with no delivery
\* attempted, whenever a recipient in usernames, cc or bcc contains an '@'.
C6_EveryAddressRejected ==
    (call.op = "send_to_email"
        /\ \E x \in Recipients(call.args) : Contains(x, "@")) =>
       /\ call.raised = "ValueError"
       /\ call.effects = <<>>

\* C6 (amended): a send_to_email call its rate limiter lets through raises
\* ValueError, with nothing delivered or logged, exactly when a recipient in
\* usernames, cc or bcc contains an '@' and does not end in
\* '@khanacademy.org'; otherwise it mails the recipients that end in
\* '@khanacademy.org' as they are and every bare username with
\* '@khanacademy.org' appended.  A call the limiter stops raises nothing.
C6_ForeignAddressRejected ==
    call.op = "send_to_email" =>
       LET foreign == \E x \in Recipients(call.args) :
                         Contains(x, "@") /\ ~EndsWith(x, KA_DOMAIN)
       IN  /\ ~call.passed => call.raised = "" /\ call.effects = <<>>
           /\ (call.passed /\ foreign) =>
                 /\ call.raised = "ValueError"
                 /\ call.effects = <<>>
                 /\ call.logs = <<>>
           /\ (call.passed /\ ~foreign) =>
                 /\ call.raised = ""
                 /\ call.result.to.items = Addresses(call.args.to)
                 /\ call.result.cc.items = Addresses(call.args.cc)
                 /\ call.result.bcc.items = Addresses(call.args.bcc)
                 /\ ~call.test =>
                       /\ call.effects # <<>>
                       /\ \A i \in 1..Len(call.effects) :
                             /\ call.effects[i].to = Addresses(call.args.to)
                             /\ call.effects[i].cc = Addresses(call.args.cc)
                             /\ call.effects[i].bcc = Addresses(call.args.bcc)

\* an email to a full '@khanacademy.org' address and a bare username, mailed
C6_FullAddressMailed ==
    /\ call.op = "send_to_email"
    /\ call.raised = ""
    /\ \E x \in Recipients(call.args) : EndsWith(x, KA_DOMAIN)
    /\ \E x \in Recipients(call.args) : ~Contains(x, "@")
    /\ call.effects # <<>>
    /\ call.effects[1].outcome = "sent"

\* the managed API reported that it is not there
Unavailable(e) == e.outcome \in {"NameError", "AssertionError"}

\* C7: Outside test mode a let-through email or PagerDuty dispatch that is not
\* rejected for its recipients tries the managed mail API first and once; it
\* tries SMTP, once, exactly when the managed API was unavailable (NameError
\* or AssertionError), so never after it delivered; and when neither
\* delivers it writes one error record and tries nothing more.
C7_ManagedApiThenSmtpOnce ==
    (call.op \in {"send_to_email", "send_to_pagerduty"} /\ call.passed
        /\ ~call.test /\ call.raised = "") =>
       /\ Len(call.effects) \in {1, 2}
       /\ call.effects[1].kind = "gae_mail"
       /\ Len(call.effects) = 2 <=> Unavailable(call.effects[1])
       /\ Len(call.effects) = 2 => call.effects[2].kind = "smtp"
       /\ IF call.effects[Len(call.effects)].outcome = "sent"
          THEN call.logs = <<>>
          ELSE /\ Len(call.logs) = 1
               /\ call.logs[1].level = ERROR

\* a dispatch that found the managed API missing and SMTP failing
C7_NeitherPathDelivered ==
    /\ call.op \in {"send_to_email", "send_to_pagerduty"}
    /\ Len(call.effects) = 2
    /\ Unavailable(call.effects[1])
    /\ call.effects[2].outcome = "SMTPException"
    /\ Len(call.logs) = 1

\* ------------------------------------------------- the cached connection
\* C8: A let-through metrics dispatch outside test mode, with an API key and
\* a connected socket in the cache, sends on that very socket, closing and
\* opening nothing, when the socket was connected at most 600 seconds ago;
\* when it was connected more than 600 seconds ago the dispatch closes it
\* first, never sends on it, and, if the lookup and the connection succeed,
\* caches and sends on a socket created and connected in this call.
C8_ReusedUntilTooOldThenReplaced ==
    [][(/\ call'.op = "send_to_graphite"
        /\ call'.passed
        /\ ~call'.test
        /\ hostedgraphite_api_key # NoneStr
        /\ _GRAPHITE_SOCKET # None
        /\ sockets[_GRAPHITE_SOCKET].connected) =>
          LET old == _GRAPHITE_SOCKET
              new == Len(sockets) + 1
              effects == call'.effects
          IN  IF now - sockets[old].at <= GRAPHITE_MAX_AGE
              THEN /\ ~sockets[old].closed
                   /\ Len(effects) = 1
                   /\ effects[1].kind = "send"
                   /\ effects[1].socket = old
                   /\ UNCHANGED graphite
              ELSE /\ effects # <<>>
                   /\ effects[1] = [kind |-> "close", socket |-> old]
                   /\ sockets'[old].closed
                   /\ Len(effects) >= 2
                   /\ effects[2].kind = "gethostbyname"
                   /\ \A i \in 1..Len(effects) :
                         effects[i].kind = "send" => effects[i].socket = new
                   /\ (\A i \in 1..Len(effects) :
                          effects[i].kind \in {"gethostbyname", "connect"}
                             => ~FailedEffect(effects[i])) =>
                         /\ _GRAPHITE_SOCKET' = new
                         /\ Len(sockets') = new
                         /\ sockets'[new].connected
                         /\ ~sockets'[new].closed
                         /\ sockets'[new].at = now
                         /\ effects[Len(effects)].kind = "send"]_vars

\* a statistic sent on a second socket after the first was closed for its age
C8_ReplacedAfterTooOld ==
    /\ call.op = "send_to_graphite"
    /\ call.effects # <<>>
    /\ call.effects[1] = [kind |-> "close", socket |-> 1]
    /\ call.effects[Len(call.effects)].kind = "send"
    /\ call.effects[Len(call.effects)].socket = 2
    /\ _GRAPHITE_SOCKET = 2
    /\ sockets[1].closed
    /\ sockets[2].at - sockets[1].at > GRAPHITE_MAX_AGE

\* ---------------------------------------------------- the severity tables
\* the entry of a table for a severity, and otherwise its INFO entry
EntryOrInfo(severity_map, severity) ==
    IF severity \in DOMAIN severity_map THEN severity_map[severity]
    ELSE severity_map[INFO]

C11_LoggedAtSeverityWhenLetThrough ==
    call.op = "send_to_logs" =>
       LET self == alerts[call.alert]
           syslogged == {i \in 1..Len(call.effects) :
                            call.effects[i].kind = "syslog"}
       IN  IF call.passed
           THEN /\ call.logs = <<LogRecord(self.severity, self.message)>>
                /\ syslogged # {} => ~call.test
                /\ \A i \in syslogged :
                      call.effects[i].message = self.message
                /\ call.returned = call.alert
           ELSE /\ call.logs = <<>>
                /\ call.effects = <<>>
                /\ call.returned = call.alert

\* in test mode, a second send_to_logs of a rate-limited Alert written to
\* neither log after the first was written to the process log
C11_StoppedAfterTestModeWrite ==
    /\ call.op = "send_to_logs"
    /\ call.test
    /\ ~call.passed
    /\ call.last = call.at
    /\ "logs" \in DOMAIN alerts[call.alert].last_sent

\* --------------------------------------------------------- the chat posts
\* the posts the last call made to the chat API, as indices of call.effects
ChatPosts == {i \in 1..Len(call.effects) : call.effects[i].kind = "hipchat_api"}

\* text without its zero-width spaces
WithoutSpaces(text) == SelectSeq(text, LAMBDA c : c # "\\u200b")

\* C12: no text the chat dispatcher posts as text (the summary, and the
\* message of an Alert that is not html) holds the two characters '8)' side by
\* side, and it differs from the Alert's text only by zero-width spaces; the
\* message of an html Alert is posted as it is, cut to 9000 characters.
C12_NoEmoticonInTextPosts ==
    call.op = "send_to_hipchat" =>
       \A i \in ChatPosts :
          LET post == call.effects[i].post
              self == alerts[call.alert]
          IN  /\ post.part = "summary" =>
                    /\ Emoticons(post.message) = {}
                    /\ WithoutSpaces(post.message) = self.summary
              /\ (post.part = "message" /\ ~self.html) =>
                    /\ post.message_format = "text"
                    /\ Emoticons(post.message) = {}
                    /\ WithoutSpaces(post.message)
                         = Take(self.message, HIPCHAT_MAX_LEN)
              /\ (post.part = "message" /\ self.html) =>
                    /\ post.message_format = "html"
                    /\ post.message = Take(self.message, HIPCHAT_MAX_LEN)

\* a summary and a text message ending in '8)', each posted with a zero-width
\* space inside it
C12_EmoticonsPosted ==
    /\ call.op = "send_to_hipchat"
    /\ ~alerts[call.alert].html
    /\ alerts[call.alert].summary = <<"8", ")">>
    /\ alerts[call.alert].message = <<"a", "8", ")">>
    /\ Cardinality(ChatPosts) = 2
    /\ \A i \in ChatPosts :
          call.effects[i].post.message
             = IF call.effects[i].post.part = "summary"
               THEN <<"8", "\\u200b", ")">>
               ELSE <<"a", "8", "\\u200b", ")">>

\* ------------------------------------------- the cache and the endpoints
\* C13: a metrics dispatch to an endpoint writes its statistic only to a
\* socket that was connected to that endpoint.
C13_SentOnConnectionToEndpoint ==
    call.op = "send_to_graphite" =>
       \A i \in 1..Len(call.effects) :
          call.effects[i].kind = "send" =>
             /\ sockets[call.effects[i].socket].connected
             /\ sockets[call.effects[i].socket].peer = call.effects[i].host

\* C14: when the cache holds no socket that is connected and open (nothing
\* yet, or what a failed creation left), the next let-through metrics
\* dispatch outside test mode, with an API key, tries to create the
\* connection again, starting with the lookup of the host.
C14_FailedCreationIsRetried ==
    [][(/\ call'.op = "send_to_graphite"
        /\ call'.passed
        /\ ~call'.test
        /\ hostedgraphite_api_key # NoneStr
        /\ \/ _GRAPHITE_SOCKET = None
           \/ ~sockets[_GRAPHITE_SOCKET].connected
           \/ sockets[_GRAPHITE_SOCKET].closed) =>
          \E i \in 1..Len(call'.effects) :
             call'.effects[i].kind = "gethostbyname"]_vars

\* ---------------------------------------------------- concurrent callers
\* the lines of _graphite_socket that close the old socket and create the new
Recreating == {"close", "resolve", "socket", "connect", "stamp"}

\* C15: with concurrent callers, at most one of them at a time is closing
\* the old socket and creating its replacement, and the socket
\* _graphite_socket returns to a caller is connected and not closed.
C15_RecreationIsCriticalSection ==
    /\ Cardinality({t \in Threads : threads[t].pc \in Recreating}) <= 1
    /\ \A t \in Threads :
          threads[t].pc = "send" =>
             /\ sockets[threads[t].handle].connected
             /\ ~sockets[threads[t].handle].closed

\* ------------------------------------------- a failing managed mail API
\* the managed API was there and failed: it raised something else than
\* NameError or AssertionError
ManagedApiFailed ==
    /\ call.op \in {"send_to_email", "send_to_pagerduty"}
    /\ call.effects # <<>>
    /\ call.effects[1].kind = "gae_mail"
    /\ call.effects[1].outcome # "sent"
    /\ ~Unavailable(call.effects[1])

\* C16: when the managed mail API fails with anything else than NameError or
\* AssertionError, SMTP is not tried: the dispatcher writes the one error
\* record of its own try and returns its Alert.  SMTP is tried only after the
\* managed API raised NameError or AssertionError.
C16_FailureOfManagedApiIsFinal ==
    /\ ManagedApiFailed =>
          /\ Len(call.effects) = 1
          /\ call.logs = <<LogRecord(ERROR,
                              <<"Failed sending",
                                IF call.op = "send_to_email" THEN "email"
                                ELSE "pagerduty email">>)>>
          /\ call.raised = ""
          /\ call.returned = call.alert
    /\ call.op \in {"send_to_email", "send_to_pagerduty"} =>
          \A i \in 1..Len(call.effects) :
             call.effects[i].kind = "smtp" =>
                /\ i = 2
                /\ call.effects[1].kind = "gae_mail"
                /\ Unavailable(call.effects[1])

\* a page whose managed API call failed, logged and not sent by SMTP
C16_PageFailedWithoutFallback ==
    /\ ManagedApiFailed
    /\ call.op = "send_to_pagerduty"
    /\ call.effects[1].outcome = "Error"
    /\ Len(call.effects) = 1
    /\ Len(call.logs) = 1

\* ------------------------------------------------ the preliminary summary
\* the last call was a chat dispatch let through outside test mode, with a
\* token
ChatPosted ==
    /\ call.op = "send_to_hipchat"
    /\ call.passed
    /\ ~call.test
    /\ hipchat_token # NoneStr

\* C17 (as stated), for a dispatch with a token: when the Alert was given no
\* summary and the summary derived from its message is not empty, the derived
\* summary is posted before the message.
C17_DerivedSummaryPosted ==
    (ChatPosted /\ alerts[call.alert].summary = NoneText
        /\ _get_summary(alerts[call.alert]) # <<>>) =>
       \E i, j \in ChatPosts :
          /\ i < j
          /\ call.effects[i].post.part = "summary"
          /\ WithoutSpaces(call.effects[i].post.message)
                = _get_summary(alerts[call.alert])
          /\ call.effects[j].post.part = "message"

\* C17 (amended): a chat dispatch let through outside test mode, with a
\* token, posts the summary given to the constructor, when it is not empty,
\* as a message of its own before the message; for an Alert given no summary
\* or an empty one it posts the message alone, whatever summary could be
\* derived from the message.
C17_ExplicitSummaryPosted ==
    ChatPosted =>
       LET self == alerts[call.alert]
           effects == call.effects
       IN  IF ExplicitSummary
           THEN /\ Len(effects) = 3
                /\ ChatPosts = {1, 3}
                /\ effects[1].post.part = "summary"
                /\ effects[1].post.message_format = "text"
                /\ WithoutSpaces(effects[1].post.message) = self.summary
                /\ effects[3].post.part = "message"
           ELSE /\ Len(effects) = 1
                /\ ChatPosts = {1}
                /\ effects[1].post.part = "message"

\* an Alert given the summary 's' whose chat dispatch posted 's' and then
\* the message
C17_SummaryThenMessage ==
    /\ ChatPosted
    /\ alerts[call.alert].summary = <<"s">>
    /\ alerts[call.alert].message = <<"a", "a", "a">>
    /\ Len(call.effects) = 3
    /\ call.effects[1].post.message = <<"s">>
    /\ call.effects[3].post.message = <<"a", "a", "a">>

\* C18: outside test mode a summary post is the first thing its dispatch
\* does, the pause of one second follows it, and the message post comes
\* after the pause: no message post precedes a summary post.
C18_SummaryPauseMessage ==
    (call.op = "send_to_hipchat" /\ ~call.test) =>
       \A i \in ChatPosts :
          call.effects[i].post.part = "summary" =>
             /\ i = 1
             /\ Len(call.effects) = 3
             /\ call.effects[2] = [kind |-> "sleep", secs |-> HIPCHAT_PAUSE]
             /\ call.effects[3].kind = "hipchat_api"
             /\ call.effects[3].post.part = "message"
             /\ \A j \in ChatPosts :
                   call.effects[j].post.part = "message" => j > 2

\* a summary post the chat API refused, the pause, and the message post
C18_PausedAfterFailedSummary ==
    /\ call.op = "send_to_hipchat"
    /\ Len(call.effects) = 3
    /\ call.effects[1].kind = "hipchat_api"
    /\ call.effects[1].post.part = "summary"
    /\ call.effects[1].outcome = "error"
    /\ call.effects[2].kind = "sleep"
    /\ call.effects[3].outcome = "ok"

\* ------------------------------------------------------ last_sent grows
\* C19: no step removes an entry of an Alert's last_sent or moves one back in
\* time; a dispatch the limiter stops leaves every last_sent as it was; and
\* a dispatch of an Alert without a rate limit (None, or 0) is always let
\* through and leaves every last_sent as it was, so that such an Alert's
\* last_sent stays empty.
C19_LastSentOnlyGrows ==
    [][/\ \A a \in Alerts :
             /\ DOMAIN alerts[a].last_sent \subseteq DOMAIN alerts'[a].last_sent
             /\ \A b \in DOMAIN alerts[a].last_sent :
                   alerts'[a].last_sent[b] >= alerts[a].last_sent[b]
             /\ alerts'[a].rate_limit \in {None, 0} =>
                   alerts'[a].last_sent = EmptyDict
       /\ (call'.op \in DispatchOps /\ ~call'.passed) => alerts' = alerts
       /\ (call'.op \in DispatchOps
              /\ alerts[call'.alert].rate_limit \in {None, 0}) =>
             /\ call'.passed
             /\ alerts' = alerts]_vars

\* a dispatch let through for the second time, which moved its entry forward
C19_EntryMovedForward ==
    /\ RateLimitedDispatch
    /\ call.passed
    /\ call.last # None
    /\ alerts[call.alert].last_sent[call.backend] = call.at
    /\ call.at > call.last

\* ------------------------------------------------ the length of a post
\* C20: the message text the chat dispatcher posts is at most
\* HIPCHAT_MAX_LEN (9000) characters long, the zero-width spaces of
\* _nix_bad_emoticons included.
C20_MessageAtMostMaxLen ==
    call.op = "send_to_hipchat" =>
       \A i \in ChatPosts :
          call.effects[i].post.part = "message" =>
             Len(call.effects[i].post.message) <= HIPCHAT_MAX_LEN

\* ------------------------------------------- when the window starts
\* C21: a dispatch of a rate-limited Alert that its limiter lets through has
\* set last_sent for its backend to the time of the call, whatever became of
\* it afterwards (no token or API key, test mode, a transport failure, a
\* ValueError for its recipients); and a dispatch of the same Alert to the
\* same backend that follows it within rate_limit seconds is stopped, making
\* no call and writing no record.
C21_WindowStartsWhenLetThrough ==
    [][/\ (/\ call'.op \in DispatchOps
           /\ call'.passed
           /\ alerts[call'.alert].rate_limit \notin {None, 0}) =>
             /\ call'.backend \in DOMAIN alerts'[call'.alert].last_sent
             /\ alerts'[call'.alert].last_sent[call'.backend] = call'.at
       /\ (/\ RateLimitedDispatch
           /\ call.passed
           /\ call'.op \in DispatchOps
           /\ call'.alert = call.alert
           /\ call'.backend = call.backend
           /\ call'.at - call.at <= alerts[call.alert].rate_limit) =>
             /\ ~call'.passed
             /\ call'.effects = <<>>
             /\ call'.logs = <<>>
             /\ call'.raised = ""]_vars

\* an email dispatch that raised ValueError for a recipient and left its
\* time in last_sent
C21_RejectedCallStartedWindow ==
    /\ RateLimitedDispatch
    /\ call.op = "send_to_email"
    /\ call.passed
    /\ call.raised = "ValueError"
    /\ alerts[call.alert].last_sent = ("email" :> call.at)

\* the addresses send_to_pagerduty makes of the service names the caller built
SyntheticAddresses ==
    [i \in 1..Len(CallerList) |-> StripLower(CallerList[i]) \o PAGERDUTY_DOMAIN]

\* C22: send_to_pagerduty leaves the caller's list of service names as the
\* caller built it, so every dispatch of that list that the limiter lets
\* through, the first and the ones after it, is accepted and pages the same
\* synthetic addresses (illegal characters stripped, lowercased,
\* '@khan-academy.pagerduty.com' appended).
C22_HeldListStaysAndPagesAlike ==
    /\ caller_list = CallerList
    /\ (/\ call.op = "send_to_pagerduty"
        /\ call.passed
        /\ call.args.type = "held") =>
          /\ call.raised # "ValueError"
          /\ call.result = SyntheticAddresses

=============================================================================
